---- MODULE Spec2Model ----
(***************************************************************************)
(* A model of src/main.py: a script that prints its startup messages,      *)
(* binds a socketserver.TCPServer to 0.0.0.0:3000 and serves every         *)
(* connection with MyHTTPRequestHandler, a BaseHTTPRequestHandler whose    *)
(* do_GET/do_POST answer a fixed JSON object and whose do_OPTIONS answers  *)
(* the CORS preflight.                                                     *)
(*                                                                         *)
(* The state is what the process and its clients can observe: the position *)
(* of the script, the two console streams, the process environment, the    *)
(* wall clock, the listen queue and, per connection, the request the       *)
(* client wrote and the response it read.  The requests modelled are       *)
(* HTTP/1.x request lines (any method, any path), a request line the       *)
(* parser rejects, and a client that closes without writing anything.      *)
(***************************************************************************)
EXTENDS Integers, Sequences, FiniteSets, TLC

(* ------------------------------ bounds -------------------------------- *)

\* Connections a run may open (each is opened once, in the order 1, 2, ...).
MaxConn == 2
\* The wall clock reads 0..MaxClock.
MaxClock == 1

(* ------------------------- program constants -------------------------- *)

PORT == 3000
HOST == "0.0.0.0"

Conn == 1..MaxConn
Clock == 0..MaxClock
Paths == {"/", "/x"}
\* GET, POST and OPTIONS have a do_ method; PUT stands for every method
\* that has none.
Commands == {"GET", "POST", "OPTIONS", "PUT"}
Tags == {"1.0"}

\* os.environ restricted to SF_TAG: the variable is unset or holds a tag.
EnvUnset == [n \in {} |-> ""]
EnvStates == {EnvUnset} \cup {[n \in {"SF_TAG"} |-> t] : t \in Tags}

\* What a client writes on a connection.
NoRequest == [kind |-> "none", command |-> "", path |-> ""]
BadRequest == [kind |-> "bad", command |-> "", path |-> ""]
EofRequest == [kind |-> "eof", command |-> "", path |-> ""]
HttpRequests ==
    {[kind |-> "http", command |-> m, path |-> p] : m \in Commands \ {"PUT"}, p \in Paths}
        \cup {[kind |-> "http", command |-> "PUT", path |-> "/x"]}
Requests == HttpRequests \cup {BadRequest, EofRequest}

NoResponse == [status |-> 0, headers |-> <<>>, body |-> <<>>]

\* self.client_address[0] of a connection.
ClientIp(c) == "10.0.0." \o ToString(c)

VARIABLES pc, stdout, stderr, environ, startEnviron, clock, backlog, conn, observed

vars == <<pc, stdout, stderr, environ, startEnviron, clock, backlog, conn, observed>>

(* --------------------- conversions and formatting --------------------- *)

\* datetime.isoformat() of the wall-clock reading t.
Isoformat(t) == "2026-11-01T01:00:0" \o ToString(t)

\* datetime.fromisoformat: the reading an ISO-8601 string denotes, -1 when
\* the string is not such a timestamp.
Fromisoformat(s) ==
    IF \E t \in Clock : Isoformat(t) = s
    THEN CHOOSE t \in Clock : Isoformat(t) = s
    ELSE -1

\* BaseHTTPRequestHandler.date_time_string(): the Date header.
DateTimeString(t) == "Sun, 01 Nov 2026 01:00:0" \o ToString(t) \o " GMT"

\* os.environ.get(name, default)
EnvironGet(env, name, default) ==
    IF name \in DOMAIN env THEN env[name] ELSE default

\* json.dumps(d).encode("utf-8") of a dict given as its items in insertion
\* order: the text of a JSON object with these members.
JsonDumps(items) == <<"json", items>>

\* json.loads: the set of keys of the JSON object a body holds, and the
\* value of a key.
IsJsonObject(body) == Len(body) = 2 /\ body[1] = "json"
JsonKeys(body) == {body[2][i][1] : i \in 1..Len(body[2])}
JsonValue(body, key) ==
    LET i == CHOOSE j \in 1..Len(body[2]) : body[2][j][1] = key
    IN body[2][i][2]

\* The request line as the base class logs it.
RequestLine(req) ==
    IF req.kind = "http" THEN req.command \o " " \o req.path \o " HTTP/1.1"
    ELSE "?"

\* BaseHTTPRequestHandler.log_message: one line on stderr.
LogMessage(ip, t, msg) == ip \o " - - [" \o ToString(t) \o "] " \o msg

(* --------------------------- the handler ------------------------------ *)

\* A handler's result is a record: whether anything was sent, the response,
\* and the lines it wrote to stdout and stderr.

\* send_response(code): log_request writes the access line, then the
\* status line and the Server and Date headers are buffered.
SendResponse(code, req, ip, t) ==
    [status |-> code,
     headers |-> << <<"Server", "BaseHTTP/0.6">>, <<"Date", DateTimeString(t)>> >>,
     err |-> << LogMessage(ip, t, "\"" \o RequestLine(req) \o "\" " \o ToString(code) \o " -") >>]

\* Variant: the origin header is forgotten.
send_cors_headers_NoOrigin ==
    << <<"Access-Control-Allow-Methods", "GET, POST, OPTIONS">>,
       <<"Access-Control-Allow-Headers", "Content-Type">> >>

send_cors_headers ==
    << <<"Access-Control-Allow-Origin", "*">>,
       <<"Access-Control-Allow-Methods", "GET, POST, OPTIONS">>,
       <<"Access-Control-Allow-Headers", "Content-Type">> >>

\* Variant: the preflight is answered 204 No Content.
do_OPTIONS_NoContent(req, ip, t, env) ==
    LET r == SendResponse(204, req, ip, t)
    IN [answered |-> TRUE,
        resp |-> [status |-> r.status,
                  headers |-> r.headers \o send_cors_headers,
                  body |-> <<>>],
        out |-> <<>>,
        err |-> r.err]

\* Variant: the preflight prints the request line as GET and POST do.
do_OPTIONS_Printing(req, ip, t, env) ==
    LET r == SendResponse(200, req, ip, t)
    IN [answered |-> TRUE,
        resp |-> [status |-> r.status,
                  headers |-> r.headers \o send_cors_headers,
                  body |-> <<>>],
        out |-> << "Request received: " \o req.command \o " " \o req.path \o " from " \o ip >>,
        err |-> r.err]

do_OPTIONS(req, ip, t, env) ==
    LET r == SendResponse(200, req, ip, t)
    IN [answered |-> TRUE,
        resp |-> [status |-> r.status,
                  headers |-> r.headers \o send_cors_headers,
                  body |-> <<>>],
        out |-> <<>>,
        err |-> r.err]

\* Variant: the timestamp is taken once, when the module is loaded, and
\* reused by every request.
Now_Cached(t) == 0

\* dt = datetime.now(): the wall clock, read while the request is handled.
Now(t) == t

\* Variant: the version is read once, when the process starts.
Version_AtStart(env) == EnvironGet(startEnviron, "SF_TAG", "latest")

\* version = os.environ.get("SF_TAG", "latest"), read from the environment
\* as it is while the request is handled.
Version(env) == EnvironGet(env, "SF_TAG", "latest")

\* Variant: the request path is echoed in a fourth member.
response_data_WithPath(req, dt, version) ==
    << <<"message", "Hello from python">>,
       <<"dt", Isoformat(dt)>>,
       <<"version", version>>,
       <<"path", req.path>> >>

\* The dict handle_request builds, as its items in insertion order.
response_data(req, dt, version) ==
    << <<"message", "Hello from python">>,
       <<"dt", Isoformat(dt)>>,
       <<"version", version>> >>

\* The line handle_request prints.
RequestReceived(command, path, ip) ==
    "Request received: " \o command \o " " \o path \o " from " \o ip

handle_request(req, ip, t, env) ==
    LET dt == Now(t)
        version == Version(env)
        r == SendResponse(200, req, ip, t)
    IN [answered |-> TRUE,
        resp |-> [status |-> r.status,
                  headers |-> r.headers \o << <<"Content-Type", "application/json">> >>
                                        \o send_cors_headers,
                  body |-> JsonDumps(response_data(req, dt, version))],
        out |-> << RequestReceived(req.command, req.path, ip) >>,
        err |-> r.err]

do_GET(req, ip, t, env) == handle_request(req, ip, t, env)

\* Variant: POST answers 201 Created.
do_POST_Created(req, ip, t, env) ==
    [handle_request(req, ip, t, env) EXCEPT !.resp.status = 201]

do_POST(req, ip, t, env) == handle_request(req, ip, t, env)

\* BaseHTTPRequestHandler.send_error: log_error, then send_response and
\* the headers and body of the HTML error page.
SendError(code, req, ip, t) ==
    LET r == SendResponse(code, req, ip, t)
    IN [answered |-> TRUE,
        resp |-> [status |-> r.status,
                  headers |-> r.headers \o << <<"Connection", "close">>,
                                              <<"Content-Type", "text/html;charset=utf-8">> >>,
                  body |-> <<"html", << <<"code", ToString(code)>> >> >>],
        out |-> <<>>,
        err |-> << LogMessage(ip, t, "code " \o ToString(code)) >> \o r.err]

\* BaseHTTPRequestHandler.handle_one_request: an empty request line ends
\* the connection, a request line that does not parse is answered 400, a
\* method without a do_ method is answered 501, the others are dispatched.
HandleOneRequest(req, ip, t, env) ==
    CASE req.kind = "eof" ->
            [answered |-> FALSE, resp |-> NoResponse, out |-> <<>>, err |-> <<>>]
      [] req.kind = "bad" -> SendError(400, req, ip, t)
      [] req.command = "GET" -> do_GET(req, ip, t, env)
      [] req.command = "POST" -> do_POST(req, ip, t, env)
      [] req.command = "OPTIONS" -> do_OPTIONS(req, ip, t, env)
      [] OTHER -> SendError(501, req, ip, t)

(* ------------------------------ startup ------------------------------- *)

StartupMessages ==
    << "Script start",
       "Server created",
       "Server listening callback",
       "Server running on " \o HOST \o ":" \o ToString(PORT) >>

Init ==
    /\ pc = "start"
    /\ stdout = <<>>
    /\ stderr = <<>>
    /\ environ \in EnvStates
    /\ startEnviron = environ
    /\ clock \in Clock
    /\ backlog = <<>>
    /\ conn = [c \in Conn |-> [state |-> "free", req |-> NoRequest,
                               answered |-> FALSE, resp |-> NoResponse]]
    /\ observed = [c \in Conn |-> [serial |-> 0, clock |-> 0, environ |-> EnvUnset,
                                   out |-> <<>>, err |-> <<>>]]

\* line 10
PrintScriptStart ==
    /\ pc = "start"
    /\ stdout' = Append(stdout, StartupMessages[1])
    /\ pc' = "defined"
    /\ UNCHANGED <<stderr, environ, startEnviron, clock, backlog, conn, observed>>

\* line 52: printed before the server object exists
PrintServerCreated ==
    /\ pc = "defined"
    /\ stdout' = Append(stdout, StartupMessages[2])
    /\ pc' = "creating"
    /\ UNCHANGED <<stderr, environ, startEnviron, clock, backlog, conn, observed>>

\* line 54: TCPServer.__init__ binds and listens
TCPServerBind ==
    /\ pc = "creating"
    /\ pc' = "bound"
    /\ UNCHANGED <<stdout, stderr, environ, startEnviron, clock, backlog, conn, observed>>

\* Variant: a failed bind is reported and tried again.
TCPServerBindFails_Retry ==
    /\ pc = "creating"
    /\ pc' = "creating"
    /\ Len(stderr) < 2
    /\ stderr' = Append(stderr, "OSError: [Errno 98] Address already in use")
    /\ UNCHANGED <<stdout, environ, startEnviron, clock, backlog, conn, observed>>

\* line 54: bind raises OSError (the port is in use); nothing catches it,
\* the interpreter prints the traceback and the process exits.
TCPServerBindFails ==
    /\ pc = "creating"
    /\ pc' = "exited"
    /\ stderr' = Append(stderr, "OSError: [Errno 98] Address already in use")
    /\ UNCHANGED <<stdout, environ, startEnviron, clock, backlog, conn, observed>>

\* line 55
PrintListeningCallback ==
    /\ pc = "bound"
    /\ stdout' = Append(stdout, StartupMessages[3])
    /\ pc' = "callback"
    /\ UNCHANGED <<stderr, environ, startEnviron, clock, backlog, conn, observed>>

\* lines 56-57: the last message, then serve_forever is entered
PrintServerRunning ==
    /\ pc = "callback"
    /\ stdout' = Append(stdout, StartupMessages[4])
    /\ pc' = "serving"
    /\ UNCHANGED <<stderr, environ, startEnviron, clock, backlog, conn, observed>>

(* ------------------------------ serving ------------------------------- *)

Listening == pc \in {"bound", "callback", "serving"}

\* The requests whose handler reads os.environ: those handle_request serves.
ReadsEnviron(req) == req.kind = "http" /\ req.command \in {"GET", "POST"}

Handling == {c \in Conn : conn[c].state = "handling"}
Closed == {c \in Conn : conn[c].state = "closed"}

\* A client connects: the kernel queues the connection on the listening
\* socket until the server accepts it.
Connect(c) ==
    /\ Listening
    /\ conn[c].state = "free"
    /\ \A d \in Conn : d < c => conn[d].state /= "free"
    /\ conn' = [conn EXCEPT ![c].state = "queued"]
    /\ backlog' = Append(backlog, c)
    /\ UNCHANGED <<pc, stdout, stderr, environ, startEnviron, clock, observed>>

\* The client writes its request (or closes its end without writing).
Send(c, r) ==
    /\ conn[c].state \in {"queued", "handling"}
    /\ conn[c].req = NoRequest
    /\ conn' = [conn EXCEPT ![c].req = r]
    /\ UNCHANGED <<pc, stdout, stderr, environ, startEnviron, clock, backlog, observed>>

\* Variant: a threading server, which accepts while a handler runs.
Accept_Threading ==
    /\ pc = "serving"
    /\ backlog /= <<>>
    /\ conn' = [conn EXCEPT ![Head(backlog)].state = "handling"]
    /\ backlog' = Tail(backlog)
    /\ UNCHANGED <<pc, stdout, stderr, environ, startEnviron, clock, observed>>

\* serve_forever: the one server thread accepts the next connection when
\* it is not inside a handler.
Accept ==
    /\ pc = "serving"
    /\ Handling = {}
    /\ backlog /= <<>>
    /\ conn' = [conn EXCEPT ![Head(backlog)].state = "handling"]
    /\ backlog' = Tail(backlog)
    /\ UNCHANGED <<pc, stdout, stderr, environ, startEnviron, clock, observed>>

\* Variant: a request line that does not parse is never answered and its
\* connection never closed.
Serve_BadRequestHangs(c) ==
    /\ pc = "serving"
    /\ conn[c].state = "handling"
    /\ conn[c].req /= NoRequest
    /\ conn[c].req.kind /= "bad"
    /\ LET h == HandleOneRequest(conn[c].req, ClientIp(c), clock, environ)
       IN /\ conn' = [conn EXCEPT ![c].state = "closed",
                                  ![c].answered = h.answered,
                                  ![c].resp = h.resp]
          /\ stdout' = stdout \o h.out
          /\ stderr' = stderr \o h.err
          /\ observed' = [observed EXCEPT ![c] =
                             [serial |-> Cardinality(Closed) + 1,
                              clock |-> IF h.answered THEN clock ELSE 0,
                              environ |-> IF ReadsEnviron(conn[c].req) THEN environ ELSE EnvUnset,
                              out |-> h.out,
                              err |-> h.err]]
    /\ UNCHANGED <<pc, environ, startEnviron, clock, backlog>>

\* finish_request: the handler reads the request line (blocking until the
\* client has written it), handles the one request and the connection is
\* shut down (protocol_version is HTTP/1.0: no keep-alive).
Serve(c) ==
    /\ pc = "serving"
    /\ conn[c].state = "handling"
    /\ conn[c].req /= NoRequest
    /\ LET h == HandleOneRequest(conn[c].req, ClientIp(c), clock, environ)
       IN /\ conn' = [conn EXCEPT ![c].state = "closed",
                                  ![c].answered = h.answered,
                                  ![c].resp = h.resp]
          /\ stdout' = stdout \o h.out
          /\ stderr' = stderr \o h.err
          /\ observed' = [observed EXCEPT ![c] =
                             [serial |-> Cardinality(Closed) + 1,
                              clock |-> IF h.answered THEN clock ELSE 0,
                              environ |-> IF ReadsEnviron(conn[c].req) THEN environ ELSE EnvUnset,
                              out |-> h.out,
                              err |-> h.err]]
    /\ UNCHANGED <<pc, environ, startEnviron, clock, backlog>>

(* ---------------------------- environment ----------------------------- *)

\* The wall clock advances.
Tick ==
    /\ clock < MaxClock
    /\ clock' = clock + 1
    /\ UNCHANGED <<pc, stdout, stderr, environ, startEnviron, backlog, conn, observed>>

\* The wall clock datetime.now() reads is set back (local time at the end
\* of daylight saving, a clock step).
ClockSetBack ==
    /\ clock > 0
    /\ clock' \in 0..(clock - 1)
    /\ UNCHANGED <<pc, stdout, stderr, environ, startEnviron, backlog, conn, observed>>

\* os.environ of the running process is modified: SF_TAG is set, changed
\* or removed.
SetEnviron(e) ==
    /\ pc /= "exited"
    /\ e /= environ
    /\ environ' = e
    /\ UNCHANGED <<pc, stdout, stderr, startEnviron, clock, backlog, conn, observed>>

Next ==
    \/ PrintScriptStart
    \/ PrintServerCreated
    \/ TCPServerBind
    \/ TCPServerBindFails
    \/ PrintListeningCallback
    \/ PrintServerRunning
    \/ \E c \in Conn : Connect(c)
    \/ \E c \in Conn, r \in Requests : Send(c, r)
    \/ Accept
    \/ \E c \in Conn : Serve(c)
    \/ Tick
    \/ ClockSetBack
    \/ \E e \in EnvStates : SetEnviron(e)

Spec == Init /\ [][Next]_vars

\* The steps of the one thread of the process: the script's statements,
\* then serve_forever's loop.  The interpreter runs the thread whenever it
\* can take a step; clients and the environment promise nothing.
ServerStep ==
    \/ PrintScriptStart
    \/ PrintServerCreated
    \/ TCPServerBind
    \/ TCPServerBindFails
    \/ PrintListeningCallback
    \/ PrintServerRunning
    \/ Accept
    \/ \E c \in Conn : Serve(c)

\* The clients' steps.
ClientStep ==
    \/ \E c \in Conn : Connect(c)
    \/ \E c \in Conn, r \in Requests : Send(c, r)

\* Progress is studied with the clock and the environment standing at
\* whatever they were at process start: no step of the server or of a
\* client is enabled or disabled by either.
LiveNext == ServerStep \/ ClientStep

LiveSpec == Init /\ [][LiveNext]_vars /\ WF_vars(ServerStep)

(* ------------------------- notions of the claims ---------------------- *)

IsGetPost(c) ==
    conn[c].req.kind = "http" /\ conn[c].req.command \in {"GET", "POST"}

IsOptions(c) ==
    conn[c].req.kind = "http" /\ conn[c].req.command = "OPTIONS"

HasHeader(resp, name, value) ==
    \E i \in 1..Len(resp.headers) : resp.headers[i] = <<name, value>>

HeaderNames(resp) == {resp.headers[i][1] : i \in 1..Len(resp.headers)}

\* The connections whose GET or POST has been answered.
Greeted == {c \in Closed : IsGetPost(c) /\ conn[c].answered}

Dt(c) == Fromisoformat(JsonValue(conn[c].resp.body, "dt"))

(* -------------------------------- C1 ---------------------------------- *)

\* C1: every GET or POST request, whatever its path, is answered with
\* status 200 and a body that is a JSON object with exactly the keys
\* message, dt and version, message being "Hello from python".
C1_GetPostBody ==
    \A c \in Closed :
        IsGetPost(c) =>
            /\ conn[c].answered
            /\ conn[c].resp.status = 200
            /\ IsJsonObject(conn[c].resp.body)
            /\ Len(conn[c].resp.body[2]) = 3
            /\ JsonKeys(conn[c].resp.body) = {"message", "dt", "version"}
            /\ JsonValue(conn[c].resp.body, "message") = "Hello from python"

C1_Witness ==
    \E c, d \in Closed :
        /\ conn[c].req = [kind |-> "http", command |-> "GET", path |-> "/"]
        /\ conn[d].req = [kind |-> "http", command |-> "POST", path |-> "/x"]
        /\ conn[c].answered /\ conn[d].answered

(* -------------------------------- C2 ---------------------------------- *)

\* C2 as stated: every response the server sends, for a request of any
\* method, includes Access-Control-Allow-Origin: *.
C2_EveryResponseHasOrigin ==
    \A c \in Conn :
        conn[c].answered => HasHeader(conn[c].resp, "Access-Control-Allow-Origin", "*")

\* C2 amended: a response includes Access-Control-Allow-Origin: * exactly
\* when it answers a GET, POST or OPTIONS request; the 501 and 400
\* responses of the base class carry no such header.
C2_OriginOnSupportedMethods ==
    \A c \in Conn :
        conn[c].answered =>
            /\ (IsGetPost(c) \/ IsOptions(c)) =>
                   HasHeader(conn[c].resp, "Access-Control-Allow-Origin", "*")
            /\ ~(IsGetPost(c) \/ IsOptions(c)) =>
                   /\ "Access-Control-Allow-Origin" \notin HeaderNames(conn[c].resp)
                   /\ conn[c].resp.status \in {400, 501}

C2_Witness ==
    \E c, d \in Closed :
        /\ conn[c].answered /\ conn[c].req.kind = "http" /\ conn[c].req.command = "PUT"
        /\ conn[d].answered /\ IsGetPost(d)

(* -------------------------------- C3 ---------------------------------- *)

\* C3: every OPTIONS request, whatever its path, is answered with status
\* 200, nothing after the headers, and the three CORS headers.
C3_Preflight ==
    \A c \in Closed :
        IsOptions(c) =>
            /\ conn[c].answered
            /\ conn[c].resp.status = 200
            /\ conn[c].resp.body = <<>>
            /\ HasHeader(conn[c].resp, "Access-Control-Allow-Origin", "*")
            /\ HasHeader(conn[c].resp, "Access-Control-Allow-Methods", "GET, POST, OPTIONS")
            /\ HasHeader(conn[c].resp, "Access-Control-Allow-Headers", "Content-Type")

C3_Witness ==
    \E c \in Closed :
        /\ conn[c].req = [kind |-> "http", command |-> "OPTIONS", path |-> "/x"]
        /\ conn[c].answered

(* -------------------------------- C4 ---------------------------------- *)

\* C4 as stated: in every GET/POST response, version is the value SF_TAG
\* had when the process started ("latest" if it was unset then), whatever
\* happened to the variable since.
C4_VersionOfProcessStart ==
    \A c \in Greeted :
        JsonValue(conn[c].resp.body, "version") = EnvironGet(startEnviron, "SF_TAG", "latest")

\* C4 amended: in every GET/POST response, version is the value SF_TAG has
\* in the process environment while that request is handled ("latest" if
\* it is unset then); it is the value of process start as long as the
\* environment has that value.
C4_VersionOfRequestTime ==
    \A c \in Greeted :
        /\ JsonValue(conn[c].resp.body, "version")
               = EnvironGet(observed[c].environ, "SF_TAG", "latest")
        /\ observed[c].environ = startEnviron =>
               JsonValue(conn[c].resp.body, "version")
                   = EnvironGet(startEnviron, "SF_TAG", "latest")

C4_Witness ==
    \E c \in Greeted :
        /\ observed[c].environ /= startEnviron
        /\ JsonValue(conn[c].resp.body, "version") = "1.0"

(* -------------------------------- C5 ---------------------------------- *)

\* C5 as stated: across GET/POST requests handled one after another, dt
\* never decreases.
C5_DtNonDecreasing ==
    \A c, d \in Greeted :
        observed[c].serial < observed[d].serial => Dt(c) <= Dt(d)

\* C5 amended: each dt is the wall-clock reading taken while that request
\* is handled, never one kept from an earlier request; so of two requests
\* handled one after another the later carries the earlier timestamp
\* exactly when the wall clock was set back in between.
C5_DtIsClockOfRequest ==
    /\ \A c \in Greeted : Dt(c) = observed[c].clock
    /\ \A c, d \in Greeted :
           observed[c].serial < observed[d].serial =>
               (Dt(d) < Dt(c) <=> observed[d].clock < observed[c].clock)

C5_Witness ==
    \E c, d \in Greeted :
        /\ observed[c].serial < observed[d].serial
        /\ Dt(d) < Dt(c)

(* -------------------------------- C6 ---------------------------------- *)

\* C6: GET and POST are indistinguishable: two GET/POST requests handled
\* at the same clock reading under the same environment get the same
\* status, headers and body, whatever their methods, their paths and the
\* requests handled before them, and each prints the same line, its own
\* method, path and client filled in, and is logged with one access line.
C6_GetPostAlike ==
    \A c, d \in Greeted :
        /\ (observed[c].clock = observed[d].clock /\ observed[c].environ = observed[d].environ)
               => conn[c].resp = conn[d].resp
        /\ observed[c].out = << RequestReceived(conn[c].req.command, conn[c].req.path, ClientIp(c)) >>
        /\ Len(observed[c].err) = Len(observed[d].err)

C6_Witness ==
    \E c, d \in Greeted :
        /\ conn[c].req = [kind |-> "http", command |-> "GET", path |-> "/"]
        /\ conn[d].req = [kind |-> "http", command |-> "POST", path |-> "/x"]
        /\ observed[c].serial < observed[d].serial
        /\ observed[c].clock = observed[d].clock
        /\ observed[c].environ = observed[d].environ

(* -------------------------------- C7 ---------------------------------- *)

\* The requests that were received and handled.
Handled == {c \in Closed : conn[c].req.kind /= "eof"}

\* The handled requests of the three methods the handler defines.
Supported == {c \in Handled : IsGetPost(c) \/ IsOptions(c)}

\* C7 as stated, for the GET, POST and OPTIONS requests alone: every such
\* request produces exactly one console line, whether the console is taken
\* to be stdout alone or stdout and stderr together.
C7_OneConsoleLinePerRequest ==
    \/ \A c \in Supported : Len(observed[c].out) = 1
    \/ \A c \in Supported : Len(observed[c].out) + Len(observed[c].err) = 1

\* C7 amended: a GET or POST request prints exactly one line on stdout,
\* naming the method, the path and the client address; no other request
\* prints on stdout; and the base class writes its access line on stderr
\* for every response (two lines for its own error responses).
C7_OneLinePerGetPost ==
    /\ \A c \in Handled :
           /\ IsGetPost(c) =>
                  observed[c].out
                      = << RequestReceived(conn[c].req.command, conn[c].req.path, ClientIp(c)) >>
           /\ ~IsGetPost(c) => observed[c].out = <<>>
           /\ Len(observed[c].err) = IF IsGetPost(c) \/ IsOptions(c) THEN 1 ELSE 2
    /\ pc = "serving" =>
           Len(stdout) = Len(StartupMessages) + Cardinality({c \in Handled : IsGetPost(c)})

C7_Witness ==
    \E c, d \in Handled : IsGetPost(c) /\ IsOptions(d)

(* -------------------------------- C8 ---------------------------------- *)

BindFailed ==
    \E i \in 1..Len(stderr) : stderr[i] = "OSError: [Errno 98] Address already in use"

\* C8: the four startup messages are printed in their order, no request
\* is handled before the last of them, and a failed bind ends the process
\* at once: after the first two messages, without the two listening
\* messages, without a second attempt and without any request handled.
C8_Startup ==
    /\ \A i \in 1..Len(stdout) : i <= Len(StartupMessages) => stdout[i] = StartupMessages[i]
    /\ \A c \in Conn :
           conn[c].state \in {"handling", "closed"} => Len(stdout) >= Len(StartupMessages)
    /\ BindFailed =>
           /\ pc = "exited"
           /\ stdout = SubSeq(StartupMessages, 1, 2)
           /\ Len(stderr) = 1
           /\ \A c \in Conn : conn[c].state = "free"

C8_Witness == pc = "exited" /\ BindFailed /\ Len(stdout) = 2

(* -------------------------------- C9 ---------------------------------- *)

\* C9 as stated: a connection that arrives while another is being handled
\* is served without waiting for the earlier one to finish.
C9_ServedWithoutWaiting ==
    (pc = "serving" /\ backlog /= <<>>) => ENABLED Accept

\* C9 amended: connections are served one at a time by the one server
\* thread, each for exactly one request-response cycle: a connection that
\* arrives while another is being handled waits in the listen queue until
\* the earlier one is finished, and a connection is closed with its
\* response, so it carries no second request.
C9_OneAtATime ==
    /\ Cardinality(Handling) <= 1
    /\ (Handling /= {} /\ backlog /= <<>>) => ~ENABLED Accept
    /\ \A c \in Conn : conn[c].answered => conn[c].state = "closed"
    /\ \A c \in Closed : ~ENABLED (\E r \in Requests : Send(c, r))

C9_Witness ==
    \E c, d \in Conn :
        /\ conn[c].state = "handling" /\ conn[c].req = NoRequest
        /\ conn[d].state = "queued" /\ conn[d].req /= NoRequest

(* -------------------------------- C10 --------------------------------- *)

\* The connections ahead of c: the one being handled and those queued
\* before it.
Ahead(c) ==
    Handling \cup {d \in Conn : \E i, j \in 1..Len(backlog) :
                                   i < j /\ backlog[i] = d /\ backlog[j] = c}

\* A GET or POST has been written on c and on every connection ahead of c
\* the client has written its request (or closed).
Ready(c) ==
    /\ IsGetPost(c)
    /\ conn[c].state \in {"queued", "handling"}
    /\ \A d \in Ahead(c) : conn[d].req /= NoRequest

\* C10: whatever requests came before (unsupported methods and malformed
\* request lines included), a request received on an accepted connection
\* is eventually answered or its connection closed, the server never
\* leaves serve_forever, and a well-formed GET or POST that follows is
\* answered with status 200.
C10_ReturnsToIdle ==
    /\ \A c \in Conn :
           (conn[c].state = "handling" /\ conn[c].req /= NoRequest)
               ~> (conn[c].state = "closed")
    /\ [][pc = "serving" => pc' = "serving"]_vars
    /\ \A c \in Conn :
           Ready(c) ~> (c \in Greeted /\ conn[c].resp.status = 200)

C10_Witness ==
    \E c, d \in Closed :
        /\ observed[c].serial < observed[d].serial
        /\ conn[c].answered
        /\ conn[c].req.kind = "bad" \/ conn[c].req.command = "PUT"
        /\ d \in Greeted
        /\ conn[d].resp.status = 200

====
